---------------------------- MODULE Spec2Model ----------------------------
(***************************************************************************)
(* Model of the thumbnail service (richmidwinter/tin): the orchestrator    *)
(* generate_thumbnail (src/src/server.rs), the renderer engine             *)
(* ThumbnailGenerator (src/src/thumbnail.rs) and the sled-backed Cache     *)
(* (src/src/cache.rs).                                                     *)
(*                                                                         *)
(* Strings are sequences of one-character strings, byte vectors are        *)
(* sequences, Option<T> is a sequence of length 0 (None) or 1 (Some).      *)
(* Request tasks are anonymous: the set of in-flight tasks is a bag of     *)
(* task records.  Time is abstracted: a timer may fire at any moment at    *)
(* which the awaited event has not happened yet.                           *)
(***************************************************************************)
EXTENDS Naturals, Sequences, FiniteSets, Bags, TLC

VARIABLES
    tasks,          \* bag of generate_thumbnail tasks (one record per request)
    cache,          \* Cache.db: function from key to stored bytes
    semaphore,      \* AppState.semaphore: permits available
    genSemaphore,   \* ThumbnailGenerator.semaphore: permits available
    browser,        \* Mutex<Browser>: "free", or who holds the guard
    probe,          \* the health_check task: its position, or what it returned
    backend,        \* what the rendering backend may answer: "any" or "plain"
    inserts,        \* history: key -> db.insert calls that took effect (2: more)
    firsts,         \* history: key -> response of the call that filled the cache
    keyIn,          \* build_cache_key study: the argument tuple
    keyOut,         \* build_cache_key study: the key computed from keyIn
    orphans,        \* pages open on the backend whose Page the program dropped
    probeHist,      \* history: what the current (or last) is_healthy call met
    pump,           \* the task spawned by new(): its position in the loop
    stream,         \* the items the handler stream has yet to yield
    imgIn,          \* process_image study: the argument tuple
    imgOut          \* process_image study: the result computed from imgIn

vars == <<tasks, cache, semaphore, genSemaphore, browser, probe, backend,
          inserts, firsts, keyIn, keyOut, orphans, probeHist, pump, stream,
          imgIn, imgOut>>

---------------------------------------------------------------------------
(* Bounds of the model *)

\* number of thumbnail requests issued in Spec
NumRequests == 2
\* requests issued beyond the admission pool's capacity in SpecAdmission
Excess == 1
\* widths and heights 0..MaxKeyDim in the build_cache_key study
MaxKeyDim == 11
\* orphaned pages are counted up to MaxOrphans (MaxOrphans: that many or more)
MaxOrphans == 1
\* the handler stream yields at most MaxEvents items in SpecPump
MaxEvents == 3
\* image and requested sides 1..MaxImageDim in the process_image study
MaxImageDim == 3
\* widths and heights 0..MaxReqDim of the request of SpecDims
MaxReqDim == 1

(* Program constants *)

MAX_CONCURRENT_RENDER == 4
GEN_PERMITS == 3
MAX_ATTEMPTS == 3

---------------------------------------------------------------------------
(* Strings *)

Digits == <<"0", "1", "2", "3", "4", "5", "6", "7", "8", "9">>

\* <u32 as Display>::fmt: decimal, no sign, no leading zeros
RECURSIVE ToDec(_)
ToDec(n) == IF n < 10 THEN <<Digits[n + 1]>>
            ELSE ToDec(n \div 10) \o <<Digits[(n % 10) + 1]>>

starts_with(s, p) == Len(s) >= Len(p) /\ SubSeq(s, 1, Len(p)) = p

HTTP  == <<"h", "t", "t", "p", ":", "/", "/">>
HTTPS == <<"h", "t", "t", "p", "s", ":", "/", "/">>

UrlEmpty == << >>
UrlFtp   == <<"f", "t", "p", ":", "/", "/", "x">>
UrlA     == HTTP \o <<"a">>
UrlA1    == HTTP \o <<"a", "1">>
UrlA8    == HTTP \o <<"a", ":", "8">>
UrlA80   == HTTP \o <<"a", ":", "8", "0">>
UrlA81   == HTTP \o <<"a", ":", "8", ":", "1">>
UrlSB    == HTTPS \o <<"b">>

Formats == {"Webp", "Jpeg", "Png"}

as_str(format) ==
    CASE format = "Webp" -> <<"w", "e", "b", "p">>
      [] format = "Jpeg" -> <<"j", "p", "e", "g">>
      [] format = "Png"  -> <<"p", "n", "g">>

content_type(format) ==
    CASE format = "Webp" -> "image/webp"
      [] format = "Jpeg" -> "image/jpeg"
      [] format = "Png"  -> "image/png"

\* a build_cache_key that leaves the separators out
build_cache_key_nosep(url, width, height, format) ==
    url \o ToDec(width) \o ToDec(height) \o as_str(format)

\* format!("{}:{}:{}:{}", url, width, height, format.as_str())
build_cache_key(url, width, height, format) ==
    url \o <<":">> \o ToDec(width) \o <<":">> \o ToDec(height)
        \o <<":">> \o as_str(format)

KeyUrls == {UrlEmpty, UrlFtp, UrlA, UrlA1, UrlA8, UrlA80, UrlA81}
KeyTuples == KeyUrls \X (0..MaxKeyDim) \X (0..MaxKeyDim) \X Formats
KeyOf(t) == build_cache_key(t[1], t[2], t[3], t[4])

---------------------------------------------------------------------------
(* Data: captures, the transcoder, the cache entry encoding, responses *)

None == << >>
Some(x) == <<x>>

WINDOW_W == 1920
WINDOW_H == 1080

\* what two renders of the same page may show
Pixels == {"p", "q"}

\* the pump still polls the handler: commands reach the backend and their
\* answers come back.  Once the pump has left its loop the handler is
\* dropped and every call errs or stays without an answer
Connected == pump # "ended"

\* a PNG capture of the given pixel size, as bytes
PngBytes(w, h, px) == <<"PNG", w, h, px>>
\* bytes no decoder accepts
Garbage == <<"BAD">>

\* the size of a viewport capture: a 0 leaves Chrome's window size in place
ViewportDims(width, height) ==
    <<IF width = 0 THEN WINDOW_W ELSE width,
      IF height = 0 THEN WINDOW_H ELSE height>>

\* the answers the backend may give to Page.captureScreenshot: a "plain"
\* backend renders a page the same way every time
ScreenshotAnswers(width, height) ==
    IF ~Connected THEN {}
    ELSE {None, Garbage}
           \cup {PngBytes(ViewportDims(width, height)[1],
                          ViewportDims(width, height)[2], px) :
                   px \in IF backend = "plain" THEN {"p"} ELSE Pixels}

Max(a, b) == IF a >= b THEN a ELSE b

\* round-half-up of a / b
RoundDiv(a, b) == (2 * a + b) \div (2 * b)

\* DynamicImage::resize(nw, nh, _): scales to fit in nw x nh, keeping the
\* aspect ratio of the iw x ih input; no side becomes 0
ResizeDims(iw, ih, nw, nh) ==
    IF nw * ih <= nh * iw
    THEN <<Max(nw, 1), Max(RoundDiv(ih * nw, iw), 1)>>
    ELSE <<Max(RoundDiv(iw * nh, ih), 1), Max(nh, 1)>>

Magic(format) ==
    CASE format = "Webp" -> "WEBP"
      [] format = "Jpeg" -> "JPEG"
      [] format = "Png"  -> "PNG"

\* image::load_from_memory succeeds
Decodable(data) ==
    /\ Len(data) = 4
    /\ data[1] \in {"PNG", "JPEG", "WEBP"}
    /\ data[2] > 0
    /\ data[3] > 0

Ok(x) == <<"Ok", x>>
Err(kind) == <<"Err", kind>>
IsOk(r) == r # << >> /\ r[1] = "Ok"
IsErr(r) == r # << >> /\ r[1] = "Err"

\* an AppError: its variant and its message
AppError(kind, msg) == <<kind, msg>>
\* the variant of the AppError a handler returned
ErrKind(out) == out[2][1]
Failed(out, kind) == IsErr(out) /\ ErrKind(out) = kind

\* a process_image that accepts every input
process_image_unchecked(data, width, height, format) ==
    Ok(<<Magic(format), width, height, "p">>)

process_image(data, width, height, format) ==
    IF data = << >>
    THEN Err(AppError("ImageProcessing", "Empty image data"))
    ELSE IF ~Decodable(data)
    THEN Err(AppError("ImageProcessing", "Failed to load image"))
    ELSE LET d == ResizeDims(data[2], data[3], width, height)
             output == <<Magic(format), d[1], d[2], data[4]>>
         IN IF output = << >>
            THEN Err(AppError("ImageProcessing", "Encoded image is empty"))
            ELSE Ok(output)

\* bincode: a byte vector or a string is its length, then its elements;
\* an Option is a tag 0, or a tag 1 and the value
SerOpt(o) == IF o = None THEN <<0>> ELSE <<1, Len(o[1])>> \o o[1]

CachedData(image_data, title, description) ==
    [image_data |-> image_data, title |-> title, description |-> description]

\* a serialise that drops the title
serialize_notitle(c) ==
    <<Len(c.image_data)>> \o c.image_data \o <<0>> \o SerOpt(c.description)

serialize(c) ==
    <<Len(c.image_data)>> \o c.image_data \o SerOpt(c.title)
        \o SerOpt(c.description)

\* reads an Option<String> at position i of b: <<value, next position>>,
\* or << >> when the bytes end early or the tag is none of 0 and 1
DeOpt(b, i) ==
    IF i > Len(b) THEN << >>
    ELSE IF b[i] = 0 THEN <<None, i + 1>>
    ELSE IF b[i] # 1 \/ i + 1 > Len(b) THEN << >>
    ELSE IF i + 1 + b[i + 1] > Len(b) THEN << >>
    ELSE <<Some(SubSeq(b, i + 2, i + 1 + b[i + 1])), i + 2 + b[i + 1]>>

deserialize(b) ==
    IF b = << >> \/ 1 + b[1] > Len(b) THEN Err("bincode")
    ELSE LET image == SubSeq(b, 2, 1 + b[1])
             t == DeOpt(b, 2 + b[1])
         IN IF t = << >> THEN Err("bincode")
            ELSE LET d == DeOpt(b, t[2])
                 IN IF d = << >> THEN Err("bincode")
                    ELSE Ok(CachedData(image, t[1], d[1]))

\* general_purpose::STANDARD.encode
Base64(bytes) == <<"b64">> \o bytes

ThumbnailResponse(url, image, format, title, description, cached) ==
    [url |-> url, image_data |-> Base64(image),
     content_type |-> content_type(format), title |-> title,
     description |-> description, cached |-> cached]

\* page.get_title(), bounded by 5 s: what try_generate keeps of the answer
\* the pages of a "plain" backend have no title and no description
TitleAnswers ==
    IF ~Connected THEN {Err("cdp"), Err("timeout")}
    ELSE IF backend = "plain" THEN {Ok(None), Err("cdp"), Err("timeout")}
    ELSE {Ok(None), Ok(Some(<<"T">>)), Err("cdp"), Err("timeout")}
TitleOf(a) == IF IsOk(a) THEN a[2] ELSE None

\* page.evaluate(description), bounded by 5 s: the string value, if the
\* script's value is a string
DescriptionAnswers ==
    IF ~Connected THEN {Err("cdp"), Err("timeout")}
    ELSE {Ok(None), Ok(Some(<< >>)), Ok(Some(<<"n", "u", "l", "l">>)),
          Err("cdp"), Err("timeout")}
           \cup IF backend = "plain" THEN {} ELSE {Ok(Some(<<"D">>))}
DescriptionOf(a) ==
    IF IsOk(a) /\ a[2] # None /\ a[2][1] # << >>
         /\ a[2][1] # <<"n", "u", "l", "l">>
    THEN a[2] ELSE None

---------------------------------------------------------------------------
(* Tasks *)

\* the requests of Spec: an empty url, a url of another scheme, and one
\* page asked for in two formats
ReqTuples ==
    {<<UrlEmpty, 2, 1, "Webp">>, <<UrlFtp, 2, 1, "Webp">>,
     <<UrlA, 2, 1, "Webp">>, <<UrlA, 2, 1, "Png">>}

\* a ThumbnailRequest whose handler has not run yet
IdleTask(q) ==
    [url |-> q[1], width |-> q[2], height |-> q[3], format |-> q[4],
     pc |-> "idle", attempt |-> 0, title |-> None, description |-> None,
     screenshot |-> None, processed |-> None, err |-> None,
     out |-> << >>, first |-> None, full |-> FALSE, cancelled |-> None,
     skipped |-> {}]

BagOfSeq(s) ==
    [t \in {s[i] : i \in DOMAIN s} |-> Cardinality({i \in DOMAIN s : s[i] = t})]

Tasks == BagToSet(tasks)
Replace(t, t2) == (tasks (-) SetToBag({t})) (+) SetToBag({t2})
\* the number of tasks at one of the positions pcs
NumTasks(pcs) ==
    BagCardinality([t \in {u \in Tasks : u.pc \in pcs} |-> tasks[t]])

TaskKey(t) == build_cache_key(t.url, t.width, t.height, t.format)

\* positions of try_generate at which the MutexGuard<Browser> is alive
HandlePcs == {"new_page", "user_agent", "viewport", "title", "description",
              "cleanup", "screenshot", "close"}
\* positions of try_generate at which the generator's permit is held
PermitPcs == {"lock"} \cup HandlePcs
\* positions inside timeout(30 s, generate(..))
RenderPcs == {"gen_acquire", "backoff"} \cup PermitPcs
\* positions at which generate_thumbnail's _permit is alive
SlotPcs == RenderPcs \cup {"process", "flush"}

\* the handler returns: the locals of the call are gone
Finish(t, out) ==
    [t EXCEPT !.pc = "done", !.out = out, !.attempt = 0, !.title = None,
              !.description = None, !.screenshot = None,
              !.processed = None, !.err = None, !.skipped = {}]

Put(f, k, v) == [x \in DOMAIN f \cup {k} |-> IF x = k THEN v ELSE f[x]]
Get(f, k, default) == IF k \in DOMAIN f THEN f[k] ELSE default
Min(a, b) == IF a <= b THEN a ELSE b

---------------------------------------------------------------------------
(* generate_thumbnail, up to the admission semaphore *)

\* a lookup that never finds an entry
LookupResult_miss(t, getOk) == [t EXCEPT !.pc = "acquire"]

\* what the cache lookup of a valid request leads to
LookupResult(t, getOk) ==
    LET key == TaskKey(t)
        \* history: this is the second call for its key, after a first one
        \* that filled the cache and returned (first); a hit was served
        \* while no admission permit was free (full)
        u == [t EXCEPT !.first = IF Get(inserts, key, 0) = 1
                                      /\ key \in DOMAIN firsts
                                   THEN Some(firsts[key]) ELSE None]
    IN IF ~getOk THEN Finish(u, Err(AppError("Internal", "cache get")))
       ELSE IF key \in DOMAIN cache
       THEN LET c == deserialize(cache[key])
            IN IF IsErr(c)
               THEN Finish(u, Err(AppError("Internal",
                                           "Cache deserialization failed")))
               ELSE Finish([u EXCEPT !.full = (semaphore = 0)],
                           Ok(ThumbnailResponse(t.url, c[2].image_data,
                                   t.format, c[2].title, c[2].description,
                                   TRUE)))
       ELSE [u EXCEPT !.pc = "acquire"]

\* a validation that lets every url through
Validate_any(url) == TRUE

\* the url checks: not empty, and an http:// or https:// prefix
Validate(url) ==
    /\ url # << >>
    /\ ~(~starts_with(url, HTTP) /\ ~starts_with(url, HTTPS))

\* the handler runs from its entry to its first suspension: validation,
\* key, cache.get (which never suspends)
Lookup(t) ==
    /\ t.pc = "idle"
    /\ \E getOk \in BOOLEAN :
         tasks' = Replace(t, IF ~Validate(t.url)
                             THEN Finish(t, Err(AppError("BadRequest",
                                                         "url")))
                             ELSE LookupResult(t, getOk))
    /\ UNCHANGED <<cache, semaphore, genSemaphore, browser, probe, backend,
                   inserts, firsts, keyIn, keyOut, orphans, probeHist, pump,
                   stream, imgIn, imgOut>>

\* an acquire that fails the request when no permit is free
Acquire_try(t) ==
    /\ t.pc = "acquire"
    /\ IF semaphore > 0
       THEN /\ semaphore' = semaphore - 1
            /\ tasks' = Replace(t, [t EXCEPT !.pc = "gen_acquire",
                                             !.attempt = 1])
       ELSE /\ semaphore' = semaphore
            /\ tasks' = Replace(t, Finish(t, Err(AppError("Internal",
                                       "Concurrency limit error"))))
    /\ UNCHANGED <<cache, genSemaphore, browser, probe, backend, inserts,
                   firsts, keyIn, keyOut, orphans, probeHist, pump, stream,
                   imgIn, imgOut>>

\* state.semaphore.acquire().await returns a permit
Acquire(t) ==
    /\ t.pc = "acquire"
    /\ semaphore > 0
    /\ semaphore' = semaphore - 1
    /\ tasks' = Replace(t, [t EXCEPT !.pc = "gen_acquire", !.attempt = 1])
    /\ UNCHANGED <<cache, genSemaphore, browser, probe, backend, inserts,
                   firsts, keyIn, keyOut, orphans, probeHist, pump, stream,
                   imgIn, imgOut>>

---------------------------------------------------------------------------
(* ThumbnailGenerator::generate and try_generate *)

\* how an awaited backend call under a timeout can end
CallOutcomes ==
    IF Connected THEN {"ok", "err", "timeout"} ELSE {"err", "timeout"}

\* the anyhow error try_generate returns when the call at position pc ends
\* with outcome o ("empty": the capture has no bytes)
CallError(pc, o) ==
    CASE pc = "lock" -> "Timeout acquiring browser lock"
      [] pc = "new_page" /\ o = "timeout" -> "Timeout creating page"
      [] pc = "new_page" /\ o = "err" -> "Failed to create page"
      [] pc = "viewport" /\ o = "timeout" -> "Timeout setting viewport"
      [] pc = "viewport" /\ o = "err" -> "CdpError"
      [] pc = "screenshot" /\ o = "timeout" -> "Timeout taking screenshot"
      [] pc = "screenshot" /\ o = "err" -> "Screenshot failed"
      [] pc = "screenshot" /\ o = "empty" -> "Screenshot is empty"

\* format!("Failed to generate thumbnail: {}", e)
GenerationFailed(e) ==
    AppError("ThumbnailGeneration", <<"Failed to generate thumbnail: ", e>>)

\* positions of try_generate at which it owns a Page
PagePcs == HandlePcs \ {"new_page"}

\* one more page is left open on the backend with no Page to close it
Orphaned(left) ==
    IF left THEN Min(orphans + 1, MaxOrphans) ELSE orphans

\* whether an attempt that returns Err(e) leaves its page behind: it does
\* after it got a Page (nothing on an error path closes it); a creation
\* that timed out may still happen on the backend
PageLeft(e) ==
    IF e \in {CallError("viewport", "err"), CallError("viewport", "timeout"),
              CallError("screenshot", "err"),
              CallError("screenshot", "timeout"),
              CallError("screenshot", "empty")}
    THEN {TRUE}
    ELSE IF e = CallError("new_page", "timeout") THEN BOOLEAN
    ELSE {FALSE}

\* whether page.close() leaves the page open: its answer is ignored; a
\* "plain" backend closes every page it is asked to close
CloseLeaves == IF backend = "plain" THEN {FALSE} ELSE BOOLEAN

\* a generate that gives up at the first failed attempt
AttemptFails_giveup(t, lockHeld, e) ==
    /\ \E left \in PageLeft(e) : orphans' = Orphaned(left)
    /\ tasks' = Replace(t, Finish(t, Err(GenerationFailed(e))))
    /\ genSemaphore' = genSemaphore + 1
    /\ browser' = IF lockHeld THEN "free" ELSE browser
    /\ semaphore' = semaphore + 1

\* a failed attempt after which the handler keeps its admission permit
AttemptFails_keep(t, lockHeld, e) ==
    LET final == ~(t.attempt < MAX_ATTEMPTS)
    IN /\ \E left \in PageLeft(e) : orphans' = Orphaned(left)
       /\ tasks' = Replace(t, IF final
                              THEN Finish(t, Err(GenerationFailed(e)))
                              ELSE [t EXCEPT !.pc = "backoff",
                                             !.title = None,
                                             !.description = None,
                                             !.skipped = {},
                                             !.err = Some(e)])
       /\ genSemaphore' = genSemaphore + 1
       /\ browser' = IF lockHeld THEN "free" ELSE browser
       /\ semaphore' = semaphore

\* try_generate returns Err(e) from a position at which it holds the permit
\* and, if lockHeld, the browser guard: both are dropped; generate sleeps
\* and retries, or after the last attempt hands the error to the
\* orchestrator, which returns ThumbnailGeneration and drops its permit
AttemptFails(t, lockHeld, e) ==
    LET final == ~(t.attempt < MAX_ATTEMPTS)
    IN /\ \E left \in PageLeft(e) : orphans' = Orphaned(left)
       /\ tasks' = Replace(t, IF final
                              THEN Finish(t, Err(GenerationFailed(e)))
                              ELSE [t EXCEPT !.pc = "backoff",
                                             !.title = None,
                                             !.description = None,
                                             !.skipped = {},
                                             !.err = Some(e)])
       /\ genSemaphore' = genSemaphore + 1
       /\ browser' = IF lockHeld THEN "free" ELSE browser
       /\ semaphore' = IF final THEN semaphore + 1 ELSE semaphore

\* self.semaphore.acquire().await returns a permit
GenAcquire(t) ==
    /\ t.pc = "gen_acquire"
    /\ genSemaphore > 0
    /\ genSemaphore' = genSemaphore - 1
    /\ tasks' = Replace(t, [t EXCEPT !.pc = "lock"])
    /\ UNCHANGED <<cache, semaphore, browser, probe, backend, inserts, firsts,
                   keyIn, keyOut, orphans, probeHist, pump, stream, imgIn,
                   imgOut>>

\* a lock that is granted whoever holds the browser
Lock_unguarded(t) ==
    /\ t.pc = "lock"
    /\ browser' = "render"
    /\ tasks' = Replace(t, [t EXCEPT !.pc = "new_page"])
    /\ UNCHANGED <<cache, semaphore, genSemaphore, probe, backend, inserts,
                   firsts, keyIn, keyOut, orphans, probeHist, pump, stream,
                   imgIn, imgOut>>

\* self.browser.lock() is granted within its 10 s
Lock(t) ==
    /\ t.pc = "lock"
    /\ browser = "free"
    /\ browser' = "render"
    /\ tasks' = Replace(t, [t EXCEPT !.pc = "new_page"])
    /\ UNCHANGED <<cache, semaphore, genSemaphore, probe, backend, inserts,
                   firsts, keyIn, keyOut, orphans, probeHist, pump, stream,
                   imgIn, imgOut>>

\* the 10 s of the lock wait run out while another task holds the browser
LockTimeout(t) ==
    /\ t.pc = "lock"
    /\ browser # "free"
    /\ AttemptFails(t, FALSE, CallError("lock", "timeout"))
    /\ UNCHANGED <<cache, probe, backend, inserts, firsts, keyIn, keyOut,
                   probeHist, pump, stream, imgIn, imgOut>>

\* browser.new_page(url), bounded by 15 s
NewPage(t) ==
    /\ t.pc = "new_page"
    /\ \E o \in CallOutcomes :
         IF o = "ok"
         THEN /\ tasks' = Replace(t, [t EXCEPT !.pc = "user_agent"])
              /\ UNCHANGED <<semaphore, genSemaphore, browser, orphans>>
         ELSE AttemptFails(t, TRUE, CallError("new_page", o))
    /\ UNCHANGED <<cache, probe, backend, inserts, firsts, keyIn, keyOut,
                   probeHist, pump, stream, imgIn, imgOut>>

\* page.execute(user_agent) answers; the answer is ignored
UserAgent(t) ==
    /\ t.pc = "user_agent"
    /\ tasks' = Replace(t, [t EXCEPT !.pc = "viewport"])
    /\ UNCHANGED <<cache, semaphore, genSemaphore, browser, probe, backend,
                   inserts, firsts, keyIn, keyOut, orphans, probeHist, pump,
                   stream, imgIn, imgOut>>

\* page.execute(device_metrics), bounded by 5 s; then the 2 s settle
Viewport(t) ==
    /\ t.pc = "viewport"
    /\ \E o \in CallOutcomes :
         IF o = "ok"
         THEN /\ tasks' = Replace(t, [t EXCEPT !.pc = "title"])
              /\ UNCHANGED <<semaphore, genSemaphore, browser, orphans>>
         ELSE AttemptFails(t, TRUE, CallError("viewport", o))
    /\ UNCHANGED <<cache, probe, backend, inserts, firsts, keyIn, keyOut,
                   probeHist, pump, stream, imgIn, imgOut>>

\* history: the best-effort calls of the attempt that failed, given the
\* calls that failed before and the answer to the call named call
Skipped(before, call, a) == IF IsErr(a) THEN before \cup {call} ELSE before

\* a try_generate that propagates the failure of page.get_title()
GetTitle_strict(t) ==
    /\ t.pc = "title"
    /\ \E a \in TitleAnswers :
         IF IsOk(a)
         THEN /\ tasks' = Replace(t, [t EXCEPT !.pc = "description",
                                               !.title = TitleOf(a)])
              /\ UNCHANGED <<semaphore, genSemaphore, browser, orphans>>
         ELSE /\ tasks' = Replace(t, Finish(t, Err(GenerationFailed(a[2]))))
              /\ orphans' = Orphaned(TRUE)
              /\ genSemaphore' = genSemaphore + 1
              /\ browser' = "free"
              /\ semaphore' = semaphore + 1
    /\ UNCHANGED <<cache, probe, backend, inserts, firsts, keyIn, keyOut,
                   probeHist, pump, stream, imgIn, imgOut>>

\* page.get_title(), bounded by 5 s
GetTitle(t) ==
    /\ t.pc = "title"
    /\ \E a \in TitleAnswers :
         tasks' = Replace(t, [t EXCEPT !.pc = "description",
                                       !.title = TitleOf(a),
                                       !.skipped = Skipped({}, "title", a)])
    /\ UNCHANGED <<cache, semaphore, genSemaphore, browser, probe, backend,
                   inserts, firsts, keyIn, keyOut, orphans, probeHist, pump,
                   stream, imgIn, imgOut>>

\* page.evaluate(description script), bounded by 5 s
GetDescription(t) ==
    /\ t.pc = "description"
    /\ \E a \in DescriptionAnswers :
         tasks' = Replace(t, [t EXCEPT !.pc = "cleanup",
                                       !.description = DescriptionOf(a),
                                       !.skipped = Skipped(t.skipped,
                                                     "description", a)])
    /\ UNCHANGED <<cache, semaphore, genSemaphore, browser, probe, backend,
                   inserts, firsts, keyIn, keyOut, orphans, probeHist, pump,
                   stream, imgIn, imgOut>>

\* page.evaluate(banner script) answers (the call has no time bound of
\* its own); the answer is ignored; then the 500 ms settle
Cleanup(t) ==
    /\ t.pc = "cleanup"
    /\ \E o \in CallOutcomes \ {"timeout"} :
         tasks' = Replace(t, [t EXCEPT !.pc = "screenshot",
                                       !.skipped =
                                         Skipped(t.skipped, "cleanup",
                                           IF o = "ok" THEN Ok(None)
                                           ELSE Err(o))])
    /\ UNCHANGED <<cache, semaphore, genSemaphore, browser, probe, backend,
                   inserts, firsts, keyIn, keyOut, orphans, probeHist, pump,
                   stream, imgIn, imgOut>>

\* page.screenshot(..), bounded by 10 s; an empty capture is an error
Screenshot(t) ==
    /\ t.pc = "screenshot"
    /\ \E a \in {Err("err"), Err("timeout")}
                  \cup {Ok(b) : b \in ScreenshotAnswers(t.width, t.height)} :
         IF IsOk(a) /\ a[2] # << >>
         THEN /\ tasks' = Replace(t, [t EXCEPT !.pc = "close",
                                               !.screenshot = a[2]])
              /\ UNCHANGED <<semaphore, genSemaphore, browser, orphans>>
         ELSE AttemptFails(t, TRUE,
                  CallError("screenshot", IF IsOk(a) THEN "empty" ELSE a[2]))
    /\ UNCHANGED <<cache, probe, backend, inserts, firsts, keyIn, keyOut,
                   probeHist, pump, stream, imgIn, imgOut>>

\* page.close(), bounded by 5 s, answer ignored; try_generate returns Ok
\* and drops the browser guard and the permit; generate returns Ok
ClosePage(t) ==
    /\ t.pc = "close"
    /\ tasks' = Replace(t, [t EXCEPT !.pc = "process", !.attempt = 0,
                                     !.skipped = {}])
    /\ \E left \in CloseLeaves : orphans' = Orphaned(left)
    /\ browser' = "free"
    /\ genSemaphore' = genSemaphore + 1
    /\ UNCHANGED <<cache, semaphore, probe, backend, inserts, firsts, keyIn,
                   keyOut, probeHist, pump, stream, imgIn, imgOut>>

\* the errors try_generate can return once it holds the browser; the only
\* call a "plain" backend fails is the creation of a page
BodyErrors ==
    IF backend = "plain" THEN {CallError("new_page", "err")}
    ELSE {CallError("new_page", o) : o \in {"err", "timeout"}}
           \cup {CallError("viewport", o) : o \in {"err", "timeout"}}
           \cup {CallError("screenshot", o) :
                    o \in {"err", "timeout", "empty"}}

\* try_generate from browser.new_page to its return, as one step: between
\* these two positions the task touches no shared state but the browser it
\* holds.  The attempt returns Ok with a title, a description and a
\* capture that is not empty, or it returns Err (new_page, the viewport or
\* the capture failed or timed out, or the capture is empty)
Attempt(t) ==
    /\ t.pc = "new_page"
    /\ \E r \in {Err(e) : e \in BodyErrors} \cup
                {Ok(<<TitleOf(ta), DescriptionOf(da), sa>>) :
                   ta \in TitleAnswers, da \in DescriptionAnswers,
                   sa \in ScreenshotAnswers(t.width, t.height) \ {None}} :
         IF IsOk(r)
         THEN /\ tasks' = Replace(t, [t EXCEPT !.pc = "process",
                                               !.attempt = 0,
                                               !.title = r[2][1],
                                               !.description = r[2][2],
                                               !.screenshot = r[2][3]])
              /\ \E left \in CloseLeaves : orphans' = Orphaned(left)
              /\ browser' = "free"
              /\ genSemaphore' = genSemaphore + 1
              /\ UNCHANGED semaphore
         ELSE AttemptFails(t, TRUE, r[2])
    /\ UNCHANGED <<cache, probe, backend, inserts, firsts, keyIn, keyOut,
                   probeHist, pump, stream, imgIn, imgOut>>

\* the 500 ms sleep between attempts is over: the next attempt starts
Backoff(t) ==
    /\ t.pc = "backoff"
    /\ tasks' = Replace(t, [t EXCEPT !.pc = "gen_acquire",
                                     !.attempt = t.attempt + 1,
                                     !.err = None])
    /\ UNCHANGED <<cache, semaphore, genSemaphore, browser, probe, backend,
                   inserts, firsts, keyIn, keyOut, orphans, probeHist, pump,
                   stream, imgIn, imgOut>>

\* history: the generate future was dropped in a retry (an attempt after
\* the first) that held the browser guard
Cancelled(t) ==
    IF t.pc \in HandlePcs /\ t.attempt > 1 THEN Some("retry, browser held")
    ELSE None

TimedOut(t) ==
    [Finish(t, Err(AppError("Timeout", "")))
       EXCEPT !.cancelled = Cancelled(t)]

\* whether dropping the generate future at position pc leaves a page
\* behind: it does when the attempt owns a Page, and it may while the
\* creation or the closing of the page is in flight
DropLeaves(pc) ==
    IF pc \in {"new_page", "close"} THEN BOOLEAN
    ELSE IF pc \in PagePcs THEN {TRUE}
    ELSE {FALSE}

\* a deadline that keeps what the dropped future held
Deadline_leak(t) ==
    /\ t.pc \in RenderPcs
    /\ tasks' = Replace(t, TimedOut(t))
    /\ \E left \in DropLeaves(t.pc) : orphans' = Orphaned(left)
    /\ UNCHANGED <<cache, semaphore, genSemaphore, browser, probe, backend,
                   inserts, firsts, keyIn, keyOut, probeHist, pump, stream,
                   imgIn, imgOut>>

\* the 30 s of tokio::time::timeout run out before generate returned: the
\* generate future is dropped where it is suspended, with the permit, the
\* guard and the Page it holds (no page.close() is sent); the handler
\* returns Timeout and drops its permit
Deadline(t) ==
    /\ t.pc \in RenderPcs
    /\ tasks' = Replace(t, TimedOut(t))
    /\ \E left \in DropLeaves(t.pc) : orphans' = Orphaned(left)
    /\ genSemaphore' = IF t.pc \in PermitPcs THEN genSemaphore + 1
                       ELSE genSemaphore
    /\ browser' = IF t.pc \in HandlePcs THEN "free" ELSE browser
    /\ semaphore' = semaphore + 1
    /\ UNCHANGED <<cache, probe, backend, inserts, firsts, keyIn, keyOut,
                   probeHist, pump, stream, imgIn, imgOut>>

---------------------------------------------------------------------------
(* generate_thumbnail, after generate returned Ok *)

FreshResponse(t, processed) ==
    ThumbnailResponse(t.url, processed, t.format, t.title, t.description,
                      FALSE)

\* an orchestrator that stores the capture whatever the transcoder said
ProcessResult_unchecked(t) ==
    process_image_unchecked(t.screenshot, t.width, t.height, t.format)

ProcessResult(t) ==
    process_image(t.screenshot, t.width, t.height, t.format)

\* process_image, then CachedData, bincode::serialize and the db.insert of
\* cache.put: an ImageProcessing error ends the request; a failed insert is
\* logged and the response is built; otherwise put awaits the flush
Process(t) ==
    /\ t.pc = "process"
    /\ LET r == ProcessResult(t)
           key == TaskKey(t)
       IN IF IsErr(r)
          THEN /\ tasks' = Replace(t, Finish(t, r))
               /\ semaphore' = semaphore + 1
               /\ UNCHANGED <<cache, inserts>>
          ELSE \E insertOk \in BOOLEAN :
                 IF insertOk
                 THEN /\ cache' = Put(cache, key, serialize(
                              CachedData(r[2], t.title, t.description)))
                      /\ inserts' = Put(inserts, key,
                                        Min(Get(inserts, key, 0) + 1, 2))
                      /\ tasks' = Replace(t, [t EXCEPT !.pc = "flush",
                                                       !.screenshot = None,
                                                       !.processed = r[2]])
                      /\ UNCHANGED semaphore
                 ELSE /\ tasks' = Replace(t,
                                     Finish(t, Ok(FreshResponse(t, r[2]))))
                      /\ semaphore' = semaphore + 1
                      /\ UNCHANGED <<cache, inserts>>
    /\ UNCHANGED <<genSemaphore, browser, probe, backend, firsts, keyIn,
                   keyOut, orphans, probeHist, pump, stream, imgIn, imgOut>>

\* a handler that fails the request when the cache write failed
FlushOutcome_strict(t, flushOk) ==
    IF flushOk THEN Ok(FreshResponse(t, t.processed))
    ELSE Err(AppError("Internal", "cache put"))

\* what the handler returns once db.flush_async() answered
FlushOutcome(t, flushOk) == Ok(FreshResponse(t, t.processed))

\* db.flush_async().await answers; a failure is logged; the response is
\* built from the transcoder's output and the handler returns it
Flush(t) ==
    /\ t.pc = "flush"
    /\ \E flushOk \in BOOLEAN :
         /\ tasks' = Replace(t, Finish(t, FlushOutcome(t, flushOk)))
         /\ firsts' = IF flushOk /\ Get(inserts, TaskKey(t), 0) = 1
                      THEN Put(firsts, TaskKey(t),
                               FreshResponse(t, t.processed))
                      ELSE firsts
    /\ semaphore' = semaphore + 1
    /\ UNCHANGED <<cache, genSemaphore, browser, probe, backend, inserts,
                   keyIn, keyOut, orphans, probeHist, pump, stream, imgIn,
                   imgOut>>

---------------------------------------------------------------------------
(* health_check and ThumbnailGenerator::is_healthy *)

\* GET /health arrives
ProbeStart ==
    /\ probe \in {"idle", "returned true", "returned false"}
    /\ probe' = "lock"
    /\ probeHist' = [afterEnd |-> ~Connected, answer |-> "none"]
    /\ UNCHANGED <<tasks, cache, semaphore, genSemaphore, browser, backend,
                   inserts, firsts, keyIn, keyOut, orphans, pump, stream,
                   imgIn, imgOut>>

\* self.browser.lock() is granted within its 5 s
ProbeLock ==
    /\ probe = "lock"
    /\ browser = "free"
    /\ browser' = "probe"
    /\ probe' = "new_page"
    /\ UNCHANGED <<tasks, cache, semaphore, genSemaphore, backend, inserts,
                   firsts, keyIn, keyOut, orphans, probeHist, pump, stream,
                   imgIn, imgOut>>

\* the 5 s of the lock wait run out: is_healthy returns false
ProbeLockTimeout ==
    /\ probe = "lock"
    /\ browser # "free"
    /\ probe' = "returned false"
    /\ UNCHANGED <<tasks, cache, semaphore, genSemaphore, browser, backend,
                   inserts, firsts, keyIn, keyOut, orphans, probeHist, pump,
                   stream, imgIn, imgOut>>

\* timeout(5 s, browser.new_page("about:blank")).await.is_ok(): true unless
\* the 5 s ran out; the guard is dropped as is_healthy returns, and so is
\* the Page of an opened page, which nothing closes
ProbeNewPage ==
    /\ probe = "new_page"
    /\ \E o \in CallOutcomes :
         /\ probe' = IF o = "timeout" THEN "returned false"
                     ELSE "returned true"
         /\ probeHist' = [probeHist EXCEPT !.answer = o]
         /\ \E left \in IF o = "ok" THEN {TRUE}
                         ELSE IF o = "timeout" THEN BOOLEAN ELSE {FALSE} :
              orphans' = Orphaned(left)
    /\ browser' = "free"
    /\ UNCHANGED <<tasks, cache, semaphore, genSemaphore, backend, inserts,
                   firsts, keyIn, keyOut, pump, stream, imgIn, imgOut>>

---------------------------------------------------------------------------
(* The task spawned by ThumbnailGenerator::new: loop { handler.next() } *)

StreamItems == {"event", "error", "end"}

\* a pump that gives up at the first error item
PumpNext_strict ==
    /\ pump = "next"
    /\ stream # << >>
    /\ stream' = Tail(stream)
    /\ pump' = CASE Head(stream) = "event" -> "next"
                 [] Head(stream) = "error" -> "ended"
                 [] Head(stream) = "end" -> "ended"
    /\ UNCHANGED <<tasks, cache, semaphore, genSemaphore, browser, probe,
                   backend, inserts, firsts, keyIn, keyOut, orphans,
                   probeHist, imgIn, imgOut>>

\* handler.next().await yields the next item: Some(Ok(_)) continues the
\* loop, Some(Err(e)) is logged and followed by a 100 ms sleep, None
\* breaks the loop
PumpNext ==
    /\ pump = "next"
    /\ stream # << >>
    /\ stream' = Tail(stream)
    /\ pump' = CASE Head(stream) = "event" -> "next"
                 [] Head(stream) = "error" -> "sleep"
                 [] Head(stream) = "end" -> "ended"
    /\ UNCHANGED <<tasks, cache, semaphore, genSemaphore, browser, probe,
                   backend, inserts, firsts, keyIn, keyOut, orphans,
                   probeHist, imgIn, imgOut>>

\* the 100 ms sleep after an error item is over: the loop goes on
PumpWake ==
    /\ pump = "sleep"
    /\ pump' = "next"
    /\ UNCHANGED <<tasks, cache, semaphore, genSemaphore, browser, probe,
                   backend, inserts, firsts, keyIn, keyOut, orphans,
                   probeHist, stream, imgIn, imgOut>>

---------------------------------------------------------------------------
(* The build_cache_key study *)

ComputeKey ==
    /\ keyOut = << >>
    /\ keyOut' = KeyOf(keyIn)
    /\ UNCHANGED <<tasks, cache, semaphore, genSemaphore, browser, probe,
                   backend, inserts, firsts, keyIn, orphans, probeHist, pump,
                   stream, imgIn, imgOut>>

---------------------------------------------------------------------------
(* The process_image study *)

\* every argument tuple of the study: no bytes, undecodable bytes, or an
\* image of any size, with any requested size and format
ImageTuples ==
    {<<data, w, h, f>> :
       data \in {<< >>, Garbage}
                  \cup {PngBytes(iw, ih, "p") : iw, ih \in 1..MaxImageDim},
       w \in 1..MaxImageDim, h \in 1..MaxImageDim,
       f \in {"Webp", "Jpeg", "Png"}}

Transcode ==
    /\ imgIn # << >>
    /\ imgOut = << >>
    /\ imgOut' = process_image(imgIn[1], imgIn[2], imgIn[3], imgIn[4])
    /\ UNCHANGED <<tasks, cache, semaphore, genSemaphore, browser, probe,
                   backend, inserts, firsts, keyIn, keyOut, orphans,
                   probeHist, pump, stream, imgIn>>

---------------------------------------------------------------------------
(* Specifications *)

EmptyMap == [k \in {} |-> 0]

InitService ==
    /\ cache = EmptyMap
    /\ semaphore = MAX_CONCURRENT_RENDER
    /\ genSemaphore = GEN_PERMITS
    /\ browser = "free"
    /\ probe = "idle"
    /\ inserts = EmptyMap
    /\ firsts = EmptyMap
    /\ orphans = 0
    /\ probeHist = [afterEnd |-> FALSE, answer |-> "none"]
    /\ pump = "next"

\* NumRequests requests, each any of ReqTuples
Init ==
    /\ InitService
    /\ backend = "any"
    /\ tasks \in {BagOfSeq([i \in DOMAIN s |-> IdleTask(s[i])]) :
                    s \in [1..NumRequests -> ReqTuples]}
    /\ keyIn = <<UrlA, 2, 1, "Webp">>
    /\ keyOut = KeyOf(keyIn)
    /\ stream = << >>
    /\ imgIn = << >>
    /\ imgOut = << >>

Next ==
    \/ \E t \in Tasks : Lookup(t)
    \/ \E t \in Tasks : Acquire(t)
    \/ \E t \in Tasks : GenAcquire(t)
    \/ \E t \in Tasks : Lock(t)
    \/ \E t \in Tasks : LockTimeout(t)
    \/ \E t \in Tasks : NewPage(t)
    \/ \E t \in Tasks : UserAgent(t)
    \/ \E t \in Tasks : Viewport(t)
    \/ \E t \in Tasks : GetTitle(t)
    \/ \E t \in Tasks : GetDescription(t)
    \/ \E t \in Tasks : Cleanup(t)
    \/ \E t \in Tasks : Screenshot(t)
    \/ \E t \in Tasks : ClosePage(t)
    \/ \E t \in Tasks : Backoff(t)
    \/ \E t \in Tasks : Deadline(t)
    \/ \E t \in Tasks : Process(t)
    \/ \E t \in Tasks : Flush(t)
    \/ ProbeStart
    \/ ProbeLock
    \/ ProbeLockTimeout
    \/ ProbeNewPage

Spec == Init /\ [][Next]_vars

\* the requests of SpecDims: one page, every width and height a u32 query
\* parameter can carry, 0 included
DimTuples ==
    {<<UrlA, w, h, "Webp">> : w \in 0..MaxReqDim, h \in 0..MaxReqDim}

\* one request, any of DimTuples
InitDims ==
    /\ InitService
    /\ backend = "any"
    /\ tasks \in {SetToBag({IdleTask(q)}) : q \in DimTuples}
    /\ keyIn = <<UrlA, 2, 1, "Webp">>
    /\ keyOut = KeyOf(keyIn)
    /\ stream = << >>
    /\ imgIn = << >>
    /\ imgOut = << >>

SpecDims == InitDims /\ [][Next]_vars

\* more requests for one page than the admission pool has permits, and a
\* backend whose pages carry no metadata
InitAdmission ==
    /\ InitService
    /\ backend = "plain"
    /\ tasks = [t \in {IdleTask(<<UrlA, 2, 1, "Webp">>)} |->
                  MAX_CONCURRENT_RENDER + Excess]
    /\ keyIn = <<UrlA, 2, 1, "Webp">>
    /\ keyOut = KeyOf(keyIn)
    /\ stream = << >>
    /\ imgIn = << >>
    /\ imgOut = << >>

\* a step of some request's task, the body of an attempt taken as one step
TaskStep ==
    \/ \E t \in Tasks : Lookup(t)
    \/ \E t \in Tasks : Acquire(t)
    \/ \E t \in Tasks : GenAcquire(t)
    \/ \E t \in Tasks : Lock(t)
    \/ \E t \in Tasks : LockTimeout(t)
    \/ \E t \in Tasks : Attempt(t)
    \/ \E t \in Tasks : Backoff(t)
    \/ \E t \in Tasks : Deadline(t)
    \/ \E t \in Tasks : Process(t)
    \/ \E t \in Tasks : Flush(t)

NextAdmission == TaskStep

\* only thumbnail requests arrive; the runtime keeps polling every task
\* that can run, and every timer fires
SpecAdmission ==
    /\ InitAdmission
    /\ [][NextAdmission]_vars
    /\ WF_vars(TaskStep)

\* every argument tuple of the study
InitKey ==
    /\ InitService
    /\ backend = "any"
    /\ tasks = EmptyBag
    /\ keyIn \in KeyTuples
    /\ keyOut = << >>
    /\ stream = << >>
    /\ imgIn = << >>
    /\ imgOut = << >>

SpecKey == InitKey /\ [][ComputeKey]_vars

\* every argument tuple of the process_image study
InitResize ==
    /\ InitService
    /\ backend = "any"
    /\ tasks = EmptyBag
    /\ keyIn = <<UrlA, 2, 1, "Webp">>
    /\ keyOut = KeyOf(keyIn)
    /\ stream = << >>
    /\ imgIn \in ImageTuples
    /\ imgOut = << >>

SpecResize == InitResize /\ [][Transcode]_vars

\* the streams of SpecPump: up to MaxEvents items, nothing after an end
Streams ==
    {s \in UNION {[1..n -> StreamItems] : n \in 0..MaxEvents} :
       \A i \in 1..(Len(s) - 1) : s[i] # "end"}

\* no thumbnail request: the pump and health checks, for every stream
InitPump ==
    /\ InitService
    /\ backend = "any"
    /\ tasks = EmptyBag
    /\ keyIn = <<UrlA, 2, 1, "Webp">>
    /\ keyOut = KeyOf(keyIn)
    /\ stream \in Streams
    /\ imgIn = << >>
    /\ imgOut = << >>

\* with no render in flight the probe's lock wait never times out
NextPump ==
    \/ PumpNext
    \/ PumpWake
    \/ ProbeStart
    \/ ProbeLock
    \/ ProbeNewPage

\* the runtime keeps polling the pump task, and its sleep timer fires
SpecPump ==
    /\ InitPump
    /\ [][NextPump]_vars
    /\ WF_vars(PumpNext)
    /\ WF_vars(PumpWake)

---------------------------------------------------------------------------
(* Claims *)

\* task t becomes task u in this step
Becomes(t, u) == t # u /\ tasks' = Replace(t, u)
TasksAfter == BagToSet(tasks')

Done(t) == t.pc = "done"
SamePayload(r1, r2) ==
    /\ r1.image_data = r2.image_data
    /\ r1.title = r2.title
    /\ r1.description = r2.description

\* the handler returned the error of a failed cache read
StoreReadFailed(t) ==
    IsErr(t.out) /\ t.out[2] = AppError("Internal", "cache get")

\* C1: a call for a tuple that misses the cache, succeeds (cached=false)
\* and whose cache write succeeds is the first call; a call for the same
\* tuple that starts after it returned, with no other write under the key,
\* is the second call.  The second call returns cached=true with the
\* image_data, title and description the first call returned (the cache
\* store being readable, as section 4.1 of the spec assumes).
C1_SecondCallIsCachedCopy ==
    \A t \in Tasks :
        (Done(t) /\ t.first # None /\ ~StoreReadFailed(t)) =>
            /\ IsOk(t.out)
            /\ t.out[2].cached = TRUE
            /\ t.first[1].cached = FALSE
            /\ SamePayload(t.out[2], t.first[1])

\* a second call was served a copy that carries a title and a description
C1_Witness ==
    \E t \in Tasks :
        /\ Done(t) /\ t.first # None /\ IsOk(t.out)
        /\ t.out[2].cached = TRUE
        /\ t.out[2].title # None
        /\ t.out[2].description # None

\* C2: build_cache_key is injective: the key computed for a tuple is the
\* key of no other tuple of (url, width, height, format), also for urls
\* that contain ':' and digits.
C2_KeyInjective ==
    keyOut # << >> =>
        \A q \in KeyTuples : (KeyOf(q) = keyOut) <=> (q = keyIn)

\* the key of ("http://a:80", 1, 8, webp) was computed
C2_Witness ==
    /\ keyOut # << >>
    /\ keyIn = <<UrlA80, 1, 8, "Webp">>
    /\ KeyOf(<<UrlA, 80, 1, "Webp">>) # keyOut

InvalidUrl(url) ==
    url = << >> \/ (~starts_with(url, HTTP) /\ ~starts_with(url, HTTPS))

\* C3: a request whose url is empty or starts with neither http:// nor
\* https:// is only ever idle or ended with BadRequest (it never waits for
\* a permit, never renders, never gets the answer of a cache read), and
\* the step that ends it changes neither the cache nor a semaphore nor the
\* browser lock.
C3_BadRequestTouchesNothing ==
    /\ [](\A t \in Tasks :
            InvalidUrl(t.url) =>
                \/ t.pc = "idle"
                \/ Done(t) /\ Failed(t.out, "BadRequest"))
    /\ [][\A t \in Tasks : \A u \in TasksAfter :
            (InvalidUrl(t.url) /\ Becomes(t, u)) =>
                /\ Done(u) /\ Failed(u.out, "BadRequest")
                /\ UNCHANGED <<cache, inserts, semaphore, genSemaphore,
                               browser>>]_vars

\* both an empty url and "ftp://x" were answered BadRequest
C3_Witness ==
    /\ \E t \in Tasks : t.url = UrlEmpty /\ Failed(t.out, "BadRequest")
    /\ \E t \in Tasks : t.url = UrlFtp /\ Failed(t.out, "BadRequest")

\* the CachedData stored under the key of t
Stored(t) == deserialize(cache[TaskKey(t)])[2]

\* C4: when the cache holds an entry for the key of a valid request and
\* the read succeeds, the step from the handler's entry ends the request
\* with cached=true and the stored image, title and description, and it
\* changes neither the cache nor a semaphore nor the browser lock: nothing
\* is rendered or transcoded, no permit and no lock is taken, whatever the
\* number of free admission permits.
C4_HitServedFromStore ==
    [][\A t \in Tasks : \A u \in TasksAfter :
         (/\ t.pc = "idle" /\ ~InvalidUrl(t.url)
          /\ TaskKey(t) \in DOMAIN cache
          /\ Becomes(t, u) /\ ~StoreReadFailed(u)) =>
             /\ Done(u) /\ IsOk(u.out)
             /\ u.out[2].cached = TRUE
             /\ u.out[2].image_data = Base64(Stored(t).image_data)
             /\ u.out[2].title = Stored(t).title
             /\ u.out[2].description = Stored(t).description
             /\ UNCHANGED <<cache, inserts, semaphore, genSemaphore, browser>>]_vars

\* a hit was served at a moment at which every admission permit was held
C4_Witness ==
    \E t \in Tasks : Done(t) /\ IsOk(t.out) /\ t.out[2].cached /\ t.full

\* C5: the deadline can end a request with Timeout at every position of
\* the render call, in any attempt; the step that does so frees the
\* browser lock if the dropped attempt held it; and the lock is only ever
\* held on behalf of an attempt that is still running or of a running
\* probe, never of an ended request, so others can acquire it.
C5_TimeoutReleasesHandle ==
    /\ [](\A t \in Tasks : t.pc \in RenderPcs => ENABLED Deadline(t))
    /\ [](/\ browser = "render" => \E t \in Tasks : t.pc \in HandlePcs
          /\ browser = "probe" => probe = "new_page")
    /\ [][\A t \in Tasks : \A u \in TasksAfter :
            (t.pc \in RenderPcs /\ Becomes(t, u) /\ Failed(u.out, "Timeout"))
              => /\ Done(u)
                 /\ browser' = IF t.pc \in HandlePcs THEN "free"
                               ELSE browser]_vars

\* a request timed out in a retry that held the browser, and another
\* task holds the browser now
C5_Witness ==
    /\ \E t \in Tasks :
          Done(t) /\ Failed(t.out, "Timeout") /\ t.cancelled # None
    /\ \/ \E u \in Tasks : u.pc \in HandlePcs
       \/ probe = "new_page"

\* C6: a step that ends a request with an error leaves the cache as it
\* was, and no request that wrote the cache ends with an error; the cache
\* changes only in the step of a request whose render returned a capture
\* that the transcoder accepts.
C6_ErrorsLeaveCacheUnchanged ==
    /\ [][\A t \in Tasks : \A u \in TasksAfter :
            (Becomes(t, u) /\ Done(u) /\ IsErr(u.out)) =>
                /\ cache' = cache
                /\ t.pc # "flush"]_vars
    /\ [][cache' # cache =>
            \E t \in Tasks :
               /\ t.pc = "process"
               /\ IsOk(process_image(t.screenshot, t.width, t.height,
                                     t.format))
               /\ \E u \in TasksAfter : Becomes(t, u) /\ u.pc = "flush"]_vars

\* a request ended with ImageProcessing and the cache has no entry for
\* its key
C6_Witness ==
    \E t \in Tasks :
        /\ Done(t) /\ Failed(t.out, "ImageProcessing")
        /\ TaskKey(t) \notin DOMAIN cache

\* C7: once render and transcode succeeded the request ends with a
\* successful response of cached=false that carries the transcoder's
\* output and the title and description of the render, whether the
\* insert and the flush of the cache write succeed or fail.
C7_PutFailureStillSucceeds ==
    [][\A t \in Tasks : \A u \in TasksAfter :
         (/\ Becomes(t, u) /\ Done(u)
          /\ \/ t.pc = "flush"
             \/ /\ t.pc = "process"
                /\ IsOk(process_image(t.screenshot, t.width, t.height,
                                      t.format))) =>
             LET image == IF t.pc = "flush" THEN t.processed
                          ELSE process_image(t.screenshot, t.width,
                                             t.height, t.format)[2]
             IN /\ IsOk(u.out)
                /\ u.out[2].cached = FALSE
                /\ u.out[2].image_data = Base64(image)
                /\ u.out[2].title = t.title
                /\ u.out[2].description = t.description]_vars

\* a request returned a fresh image although the cache holds nothing for
\* its key: its insert failed
C7_Witness ==
    \E t \in Tasks :
        /\ Done(t) /\ IsOk(t.out) /\ t.out[2].cached = FALSE
        /\ TaskKey(t) \notin DOMAIN cache

HandleHolders ==
    NumTasks(HandlePcs)
      + (IF probe = "new_page" THEN 1 ELSE 0)

\* C8: at most one task (a render attempt or the health probe) is at a
\* position that uses the browser, and whoever is at such a position
\* holds the browser lock.
C8_HandleMutualExclusion ==
    /\ HandleHolders <= 1
    /\ (\E t \in Tasks : t.pc \in HandlePcs) => browser = "render"
    /\ probe = "new_page" => browser = "probe"
    /\ HandleHolders = 0 => browser = "free"

\* an attempt is capturing while another attempt and the probe wait for
\* the lock
C8_Witness ==
    /\ \E t \in Tasks : t.pc = "screenshot"
    /\ \E t \in Tasks : t.pc = "lock"
    /\ probe = "lock"

\* C9: the admission permits held (by requests between the acquire and
\* the return of the handler) and the permits available add up to the
\* capacity of 4; an ended request and a request that has not acquired
\* hold none; hence at most 4 requests are inside the render call.
C9_SlotAccounting ==
    /\ semaphore + NumTasks(SlotPcs)
         = MAX_CONCURRENT_RENDER
    /\ NumTasks(RenderPcs) <= MAX_CONCURRENT_RENDER
    /\ NumTasks(PermitPcs) <= MAX_CONCURRENT_RENDER

\* requests ended in Timeout, in ThumbnailGeneration, in ImageProcessing
\* and in success, and every permit is free again
C9_Witness ==
    /\ semaphore = MAX_CONCURRENT_RENDER
    /\ \E t \in Tasks : Failed(t.out, "Timeout")
    /\ \E t \in Tasks : Failed(t.out, "ThumbnailGeneration")
    /\ \E t \in Tasks : Failed(t.out, "ImageProcessing")
    /\ \E t \in Tasks : IsOk(t.out)

AllDone == \A t \in Tasks : Done(t)

\* C10: a request that waits for an admission permit leaves that wait
\* only by getting a permit, never with an error; and every request
\* eventually ends.
C10_ExcessBlocksAndAllEnd ==
    /\ [][\A t \in Tasks : \A u \in TasksAfter :
            (t.pc = "acquire" /\ Becomes(t, u)) =>
                /\ u.pc = "gen_acquire"
                /\ semaphore > 0]_vars
    /\ <>[]AllDone

\* a request waits for a permit while all permits are held
C10_Witness ==
    /\ semaphore = 0
    /\ \E t \in Tasks : t.pc = "acquire"

\* the errors an attempt that is at position pc can return from there
ErrorsFrom(pc) ==
    IF pc = "lock" THEN {CallError(pc, "timeout")}
    ELSE IF pc \in {"new_page", "viewport"}
    THEN {CallError(pc, o) : o \in {"err", "timeout"}}
    ELSE IF pc = "screenshot"
    THEN {CallError(pc, o) : o \in {"err", "timeout", "empty"}}
    ELSE {}

\* C11: a request makes at most 3 attempts; an attempt after the first
\* starts only from the backoff sleep that follows a failed attempt; a
\* successful attempt hands its result to the orchestrator and the render
\* call is never entered again; a failure of attempt 1 or 2 never ends the
\* request, and ThumbnailGeneration is returned only by the failure of
\* attempt 3, with the error of that very failure.
C11_RetryPolicy ==
    /\ [](\A t \in Tasks : t.attempt <= MAX_ATTEMPTS)
    /\ [][\A t \in Tasks : \A u \in TasksAfter :
            Becomes(t, u) =>
              /\ u.attempt \in {t.attempt, t.attempt + 1, 0}
              /\ u.attempt = t.attempt + 1 =>
                    \/ t.pc = "acquire" /\ t.attempt = 0
                    \/ t.pc = "backoff" /\ t.err # None
              /\ u.pc = "backoff" =>
                    /\ t.pc \in PermitPcs /\ t.attempt < MAX_ATTEMPTS
                    /\ u.err # None /\ u.err[1] \in ErrorsFrom(t.pc)
              /\ (t.pc \in RenderPcs /\ u.pc = "process") =>
                    t.pc = "close" /\ u.attempt = 0
              /\ t.pc \in {"process", "flush", "done"} =>
                    u.pc \notin RenderPcs /\ u.attempt = 0
              /\ (t.pc \in PermitPcs /\ t.attempt < MAX_ATTEMPTS
                     /\ Done(u)) => Failed(u.out, "Timeout")
              /\ (Done(u) /\ Failed(u.out, "ThumbnailGeneration")) =>
                    /\ t.attempt = MAX_ATTEMPTS
                    /\ \E e \in ErrorsFrom(t.pc) :
                          u.out[2] = GenerationFailed(e)]_vars

\* the third attempt of a request found the capture empty and the request
\* ended with that error, while another request is in its second attempt
\* after a failure
C11_Witness ==
    /\ \E t \in Tasks :
          /\ Done(t) /\ IsErr(t.out)
          /\ t.out[2] = GenerationFailed(CallError("screenshot", "empty"))
    /\ \E t \in Tasks : t.pc \in PermitPcs /\ t.attempt = 2

\* C12: a cache entry never changes once written: every step leaves every
\* key that has a value with that same value, whatever the interleaving
\* of the requests.
C12_EntryImmutable ==
    [][\A k \in DOMAIN cache :
         k \in DOMAIN cache' /\ cache'[k] = cache[k]]_vars

\* C13: the step in which the deadline ends a request with Timeout while
\* its attempt holds the browser lock does not interrupt the attempt: the
\* lock stays held and the attempt's permit stays taken, to be released
\* when the attempt itself ends.
C13_DeadlineLeavesAttemptRunning ==
    [][\A t \in Tasks : \A u \in TasksAfter :
         (/\ t.pc \in HandlePcs /\ Becomes(t, u)
          /\ Done(u) /\ Failed(u.out, "Timeout")) =>
             /\ browser' = "render"
             /\ genSemaphore' = genSemaphore]_vars

ProbeReturned == probe \in {"returned true", "returned false"}

\* C14: a health probe that has returned reports healthy only if its open
\* call succeeded: after a lock wait that timed out (no open call), an
\* open call that timed out or an open call the backend answered with an
\* error, it reports unhealthy.
C14_HealthyOnlyIfOpened ==
    ProbeReturned =>
        (probe = "returned true" <=> probeHist.answer = "ok")

\* C15: health probes leave no page behind: with no thumbnail request ever
\* made, no page is open on the backend once a probe whose open call
\* succeeded has returned (the page it opened was released before).
C15_ProbesLeaveNoPage ==
    (ProbeReturned /\ probeHist.answer = "ok") => orphans = 0


\* C16: the pump never terminates on a recoverable error: it ends only by
\* consuming the end of the stream, an error item sends it to its 100 ms
\* sleep, and from that sleep it always comes back to handler.next().
C16_PumpSurvivesErrors ==
    /\ [][pump' = "ended" =>
            \/ pump = "ended"
            \/ pump = "next" /\ stream # << >> /\ Head(stream) = "end"]_vars
    /\ [][(pump = "next" /\ pump' # "next" /\ Head(stream) = "error") =>
            pump' = "sleep"]_vars
    /\ (pump = "sleep") ~> (pump = "next")
    /\ [](pump # "ended" => <>(pump = "next" \/ pump = "ended"))

\* an error item was consumed and logged, items are still to come
C16_Witness ==
    pump = "sleep" /\ stream # << >>


\* C17: once the pump has ended the engine is permanently unhealthy: every
\* health probe started after the end of the pump reports unhealthy.
C17_UnhealthyAfterPumpEnd ==
    (ProbeReturned /\ probeHist.afterEnd) => probe = "returned false"


\* C18: a successful transcode produces an image of exactly the requested
\* width x height, whatever the dimensions of the raw image.
C18_ExactDimensions ==
    IsOk(imgOut) => (imgOut[2][2] = imgIn[2] /\ imgOut[2][3] = imgIn[3])


\* positions of an attempt that owns a page it has not yet begun to close
OwnPcs == PagePcs \ {"close"}

\* C19: every attempt that has opened a page closes it before it ends: a
\* step by which an attempt leaves a position where it owns a page
\* without going on to its close (it failed at the viewport or at the
\* capture, or the deadline cancelled it) leaves no page open behind.
C19_AttemptsReleasePages ==
    [][(/\ NumTasks(OwnPcs)' < NumTasks(OwnPcs)
        /\ NumTasks({"close"})' = NumTasks({"close"})
        /\ orphans < MaxOrphans)
         => orphans' = orphans]_vars


\* the best-effort positions of try_generate and what follows each
MetaPcs == {"title", "description", "cleanup"}
NextPc(pc) ==
    CASE pc = "title" -> "description"
      [] pc = "description" -> "cleanup"
      [] pc = "cleanup" -> "screenshot"

\* a field whose extraction failed is absent
Omitted(t) ==
    /\ "title" \in t.skipped => t.title = None
    /\ "description" \in t.skipped => t.description = None

\* C20: metadata extraction and content cleanup are best-effort: a step an
\* attempt takes from the title, the description or the banner script goes
\* on to the next position of the same attempt whatever the answer (only
\* the overall deadline ends it there), a field whose call failed is
\* absent, and an attempt whose capture succeeded returns Ok with exactly
\* the fields it had.
C20_MetadataBestEffort ==
    /\ [](\A t \in Tasks : Omitted(t))
    /\ [][\A t \in Tasks :
            (t.pc \in MetaPcs /\ CopiesIn(t, tasks') < CopiesIn(t, tasks)) =>
              \E u \in BagToSet(tasks') :
                /\ tasks' = Replace(t, u)
                /\ \/ u = TimedOut(t)
                   \/ /\ u.pc = NextPc(t.pc)
                      /\ u.attempt = t.attempt
                      /\ t.skipped \subseteq u.skipped]_vars
    /\ [][\A t \in Tasks :
            (t.pc = "close" /\ CopiesIn(t, tasks') < CopiesIn(t, tasks)) =>
              \E u \in BagToSet(tasks') :
                /\ tasks' = Replace(t, u)
                /\ \/ u = TimedOut(t)
                   \/ /\ u.pc = "process"
                      /\ u.title = t.title
                      /\ u.description = t.description
                      /\ u.screenshot = t.screenshot]_vars

\* the title, the description and the banner script all failed, the
\* capture succeeded and the attempt is about to return Ok
C20_Witness ==
    \E t \in Tasks :
      /\ t.pc = "close"
      /\ t.skipped = MetaPcs
      /\ t.title = None
      /\ t.description = None
      /\ t.screenshot # None


\* C21: every request the orchestrator hands to the renderer or the
\* transcoder has width > 0 and height > 0: no call that is past the
\* validation, inside generate, process_image or the cache write, carries
\* a width or a height of 0.
C21_PositiveDimensions ==
    \A t \in Tasks : t.pc \in SlotPcs => (t.width > 0 /\ t.height > 0)

===========================================================================
